---- MODULE Spec2Model ----
(***************************************************************************)
(* DegradationMix (audio_degrader/DegradationMix.py): mixing a noise       *)
(* recording into a host audio buffer at a target signal-to-noise ratio.   *)
(*                                                                         *)
(* Arrays are sequences of channels, each a sequence of samples.  A        *)
(* floating-point number is modelled exactly: a finite value is            *)
(* (p / q) * sqrt(r) with p / q in lowest terms and r square-free, so that *)
(* the square roots of the RMS computations are exact; the IEEE values     *)
(* infinity and NaN are values of their own.  Rounding is not modelled.    *)
(***************************************************************************)
EXTENDS Integers, Sequences, FiniteSets, TLC

\* ------------------------------------------------------------------ bounds

\* Longest host buffer (samples per channel) of the duration-adjustment runs.
MaxInputLen == 5
\* Longest noise buffer (samples per channel) of the duration-adjustment runs.
MaxNoiseLen == 3
\* Longest host buffer of the runs of apply.
MaxHostLen == 2
\* Longest two-channel decoded noise file of the runs of apply.
MaxDecodeLen == 1
\* Longest single-channel decoded noise file of the runs of apply.
MaxMonoLen == 2

\* ----------------------------------------------------------------- numbers
\* An operator below that uses an argument more than once binds it first, as
\* the element of a singleton: TLC evaluates an unbound argument afresh at
\* each use when it evaluates ENABLED, and nested calls would multiply.

\* The element of a singleton.
The(S) == CHOOSE v \in S : TRUE

RECURSIVE GCD(_, _)
GCD(x, y) == The({ IF b = 0 THEN a ELSE GCD(b, a % b) : a \in {x}, b \in {y} })

Abs(x) == The({ IF i < 0 THEN -i ELSE i : i \in {x} })

\* The largest m with m * m dividing n >= 1, searched from i upwards.
RECURSIVE SquareFactor(_, _)
SquareFactor(x, y) ==
    The({ IF i * i > n THEN 1
          ELSE IF n % (i * i) = 0 THEN i * SquareFactor(n \div (i * i), i)
               ELSE SquareFactor(n, i + 1) : n \in {x}, i \in {y} })

NaN == [k |-> "nan", p |-> 0, q |-> 1, r |-> 1]

\* The infinity of sign sg.
Inf(sg) == [k |-> "inf", p |-> sg, q |-> 1, r |-> 1]

\* The finite value (num / den) * sqrt(rad): den > 0, rad >= 1 square-free.
Fin(num, den, rad) ==
    The({ IF n = 0 THEN [k |-> "fin", p |-> 0, q |-> 1, r |-> 1]
          ELSE [k |-> "fin", p |-> n \div GCD(Abs(n), d), q |-> d \div GCD(Abs(n), d),
                r |-> rad] : n \in {num}, d \in {den} })

\* The rational num / den, den > 0.
Rat(num, den) == Fin(num, den, 1)

Zero == Rat(0, 1)

IsNaN(v) == v.k = "nan"
IsInf(v) == v.k = "inf"
IsFinite(v) == v.k = "fin"
IsZero(v) == v.k = "fin" /\ v.p = 0
IsRational(v) == v.k = "fin" /\ v.r = 1

Sign(v) == IF v.p < 0 THEN -1 ELSE IF v.p = 0 THEN 0 ELSE 1

\* a * b (IEEE: 0 * inf = nan).  sqrt(ra) * sqrt(rb) = g * sqrt(ra/g * rb/g)
\* for g the greatest common divisor of the square-free ra and rb.
Mul(x, y) ==
    The({ IF IsNaN(a) \/ IsNaN(b) THEN NaN
          ELSE IF IsInf(a) \/ IsInf(b)
               THEN IF Sign(a) * Sign(b) = 0 THEN NaN ELSE Inf(Sign(a) * Sign(b))
               ELSE Fin(a.p * b.p * GCD(a.r, b.r), a.q * b.q,
                        (a.r \div GCD(a.r, b.r)) * (b.r \div GCD(a.r, b.r)))
          : a \in {x}, b \in {y} })

\* 1 / b for b finite and not zero: q / (p * sqrt(r)) = q * sqrt(r) / (p * r)
Reciprocal(y) == The({ Fin(Sign(b) * b.q, Abs(b.p) * b.r, b.r) : b \in {y} })

\* a / b as numpy divides float64 values: x / 0 is an infinity, 0 / 0 and
\* inf / inf are nan, and nothing is raised.  A zero divisor is +0.
Div(x, y) ==
    The({ IF IsNaN(a) \/ IsNaN(b) THEN NaN
          ELSE IF IsInf(a) THEN (IF IsInf(b) THEN NaN
                                 ELSE Inf(IF IsZero(b) THEN Sign(a) ELSE Sign(a) * Sign(b)))
          ELSE IF IsInf(b) THEN Zero
          ELSE IF IsZero(b) THEN (IF IsZero(a) THEN NaN ELSE Inf(Sign(a)))
          ELSE Mul(a, Reciprocal(b))
          : a \in {x}, b \in {y} })

\* Whether a + b is a value of the model: one of them zero, infinite or nan,
\* or both multiples of the same square root.
AddOk(a, b) ==
    \/ ~IsFinite(a) \/ ~IsFinite(b)
    \/ IsZero(a) \/ IsZero(b)
    \/ a.r = b.r

\* a + b (IEEE: inf + -inf = nan).
Add(x, y) ==
    The({ IF IsNaN(a) \/ IsNaN(b) THEN NaN
          ELSE IF IsInf(a) THEN (IF IsInf(b) /\ Sign(b) # Sign(a) THEN NaN ELSE a)
          ELSE IF IsInf(b) THEN b
          ELSE IF IsZero(a) THEN b
          ELSE IF IsZero(b) THEN a
          ELSE Fin(a.p * b.q + b.p * a.q, a.q * b.q, a.r)
          : a \in {x}, b \in {y} })

\* np.power(v, 2)
Power2(x) == The({ Mul(v, v) : v \in {x} })

\* np.sqrt of nan, +inf or a rational p / q >= 0: sqrt(p * q) / q
Sqrt(x) ==
    The({ IF ~IsFinite(v) \/ IsZero(v) THEN v
          ELSE The({ Fin(m, v.q, (v.p * v.q) \div (m * m)) :
                     m \in {SquareFactor(v.p * v.q, 2)} })
          : v \in {x} })

\* ------------------------------------------------------------------ arrays

\* shape[1] of an array of shape (C, N), C >= 1.
NumSamples(a) == Len(a[1])

\* shape[0]
NumChannels(a) == Len(a)

RECURSIVE Reversed(_)
Reversed(q) == IF q = <<>> THEN <<>> ELSE Append(Reversed(Tail(q)), Head(q))

\* Mutant of ConcatenateAxis1: the second copy is appended back to front.
ConcatenateMirrored(x, y) ==
    The({ [c \in 1..Len(a) |-> a[c] \o Reversed(b[c])] : a \in {x}, b \in {y} })

\* np.concatenate((a, b), axis=1)
ConcatenateAxis1(x, y) ==
    The({ [c \in 1..Len(a) |-> a[c] \o b[c]] : a \in {x}, b \in {y} })

\* a[:, :n]
SliceAxis1(x, y) ==
    The({ [c \in 1..Len(a) |-> SubSeq(a[c], 1, IF n < Len(a[c]) THEN n ELSE Len(a[c]))]
          : a \in {x}, n \in {y} })

\* All sequences over S of length exactly n.
SeqsOfLen(S, n) == [1..n -> S]

\* All arrays of shape (ch, n) over S.
Arrays(S, ch, n) == [1..ch -> SeqsOfLen(S, n)]

\* Row-major list of the samples of an array.
RECURSIVE Flatten(_)
Flatten(x) ==
    The({ IF a = <<>> THEN <<>> ELSE Head(a) \o Flatten(Tail(a)) : a \in {x} })

RECURSIVE SumSeq(_)
SumSeq(x) ==
    The({ IF q = <<>> THEN Zero ELSE Add(Head(q), SumSeq(Tail(q))) : q \in {x} })

\* np.mean over all elements; the mean of no element is nan.
Mean(x) ==
    The({ IF Len(q) = 0 THEN NaN ELSE Div(SumSeq(q), Rat(Len(q), 1))
          : q \in {Flatten(x)} })

\* Element-wise np.power(a, 2)
PowerArr(x) ==
    The({ [c \in 1..Len(a) |-> [i \in 1..Len(a[c]) |-> Power2(a[c][i])]] : a \in {x} })

\* np.sqrt(np.mean(np.power(a, 2)))
RootMeanSquare(a) == Sqrt(Mean(PowerArr(a)))

\* a * v, a an array and v a scalar
ScaleArr(x, y) ==
    The({ [c \in 1..Len(a) |-> [i \in 1..Len(a[c]) |-> Mul(a[c][i], v)]]
          : a \in {x}, v \in {y} })

\* a / v
DivArr(x, y) ==
    The({ [c \in 1..Len(a) |-> [i \in 1..Len(a[c]) |-> Div(a[c][i], v)]]
          : a \in {x}, v \in {y} })

\* Whether numpy adds arrays of these shapes: equal, and no broadcasting
\* between 2 and 3 channels.
SameShape(a, b) ==
    /\ Len(a) = Len(b)
    /\ \A c \in 1..Len(a) : Len(a[c]) = Len(b[c])

\* a + b for arrays of the same shape
AddArr(x, y) ==
    The({ [c \in 1..Len(a) |-> [i \in 1..Len(a[c]) |-> Add(a[c][i], b[c][i])]]
          : a \in {x}, b \in {y} })

\* The array of shape (ch, n) holding v everywhere.
Full(ch, n, v) == [c \in 1..ch |-> [i \in 1..n |-> v]]

\* ------------------------------------------------------------------- paths

\* A path is the sequence of its components; an absolute path starts "/".
IsAbsPath(p) == Len(p) > 0 /\ p[1] = "/"

\* os.path.join(a, b): an absolute b discards a.
PathJoin(a, b) == IF IsAbsPath(b) THEN b ELSE a \o b

\* audio_degrader.__path__[0]
PackageDir == <<"/", "site", "audio_degrader">>

\* The working directory relative paths are resolved against.
WorkDir == <<"/", "work">>

ResolveCwd(p) == PathJoin(WorkDir, p)

\* bundled resources directory: os.path.join(audio_degrader.__path__[0], 'resources')
ResourcesDir == PathJoin(PackageDir, <<"resources">>)

\* ------------------------------------------------------------ decimal text

Digits == {"0", "1", "2", "3", "4", "5", "6", "7", "8", "9"}

DigitValue(ch) ==
    CASE ch = "0" -> 0 [] ch = "1" -> 1 [] ch = "2" -> 2 [] ch = "3" -> 3
      [] ch = "4" -> 4 [] ch = "5" -> 5 [] ch = "6" -> 6 [] ch = "7" -> 7
      [] ch = "8" -> 8 [] ch = "9" -> 9

RECURSIVE DecimalValue(_, _)
DecimalValue(str, acc) ==
    IF str = <<>> THEN acc
    ELSE DecimalValue(Tail(str), 10 * acc + DigitValue(Head(str)))

AllDigits(str) == Len(str) > 0 /\ \A i \in 1..Len(str) : str[i] \in Digits

\* float(text) on a text given as its characters, for the texts made of an
\* optional sign and decimal digits; any other text of the model raises
\* ValueError (ok = FALSE).
ParseFloat(str) ==
    IF AllDigits(str) THEN [ok |-> TRUE, v |-> DecimalValue(str, 0)]
    ELSE IF Len(str) > 1 /\ str[1] \in {"-", "+"} /\ AllDigits(Tail(str))
         THEN [ok |-> TRUE,
               v |-> (IF str[1] = "-" THEN -1 ELSE 1) * DecimalValue(Tail(str), 0)]
         ELSE [ok |-> FALSE, v |-> 0]

RECURSIVE Pow(_, _)
Pow(b, e) == IF e = 0 THEN 1 ELSE b * Pow(b, e - 1)

\* 10 ** (snr_dbs / 20.0) for snr_dbs a multiple of 10: the square root of
\* 10 ** (snr_dbs / 10).
SnrLinear(snr_dbs) ==
    LET root == Sqrt(Rat(Pow(10, Abs(snr_dbs) \div 10), 1))
    IN  IF snr_dbs >= 0 THEN root ELSE Reciprocal(root)

\* rms_input / rms_noise / snr_linear
GainFormula(snr_dbs, rms_noise, rms_input) ==
    Div(Div(rms_input, rms_noise), SnrLinear(snr_dbs))

\* ------------------------------------------------------------------- state

\* The host objects (DegradedAudioFile) apply may be called on.
Hosts == {1, 2}

VARIABLES
    fs,         \* the file system: absolute path -> directory or decoded file
    params,     \* self.parameters_values: noise (a path) and snr (a text)
    host,       \* host[h].samples: the buffer of DegradedAudioFile h
    active,     \* the hosts apply is called on
    pc,         \* pc[h]: where the call on host h stands
    frame,      \* frame[h]: the locals of the call on host h
    entry       \* entry[h]: history of the call on host h (arguments on
                \* entry, whether the loop body ran)

vars == <<fs, params, host, active, pc, frame, entry>>

Unset == [k |-> "unset", p |-> 0, q |-> 1, r |-> 1]

EmptyFrame ==
    [noise_path |-> <<>>, noise_samples |-> <<>>, input_num_samples |-> 0,
     rms_noise |-> Unset, rms_input |-> Unset, noise_gain_factor |-> Unset,
     y |-> <<>>, rms_y |-> Unset, exc |-> "none"]

EmptyEntry == [samples |-> <<>>, noise |-> <<>>, looped |-> FALSE]

\* os.path.isfile(p)
IsFile(p) ==
    /\ ResolveCwd(p) \in DOMAIN fs
    /\ fs[ResolveCwd(p)].kind = "file"

\* Mutant of ActualNoisePath: the value is joined onto the resources directory
\* without the test that it names a file.
ActualNoisePathJoined(noise) == PathJoin(ResourcesDir, noise)

\* get_actual_noise_path
ActualNoisePath(noise) ==
    IF ~IsFile(noise) THEN PathJoin(ResourcesDir, noise) ELSE noise

\* lr.core.load(noise_path, sr=sample_rate, mono=False): the decoded samples
\* at the host's sample rate, of shape (N,) (fmt "mono") or (C, N) (fmt
\* "multi"), or the error raised.
Load(path) ==
    LET a == ResolveCwd(path)
    IN  IF a \notin DOMAIN fs \/ fs[a].kind # "file"
        THEN [err |-> "IOError", audio |-> <<>>]
        ELSE IF fs[a].audio.fmt = "bad"
             THEN [err |-> "DecodeError", audio |-> <<>>]
             ELSE [err |-> "none", audio |-> fs[a].audio]

\* Mutant of Stereo: the second channel of a single-channel signal stays zero.
StereoLeftOnly(aux_x_noise) ==
    IF aux_x_noise.fmt = "mono"
    THEN <<aux_x_noise.data, [i \in 1..Len(aux_x_noise.data) |-> Zero]>>
    ELSE aux_x_noise.data

\* read_noise's channel normalization of a decoded signal
Stereo(aux_x_noise) ==
    IF aux_x_noise.fmt = "mono"
    THEN <<aux_x_noise.data, aux_x_noise.data>>
    ELSE aux_x_noise.data

\* ----------------------------------------------------------------- actions

\* apply(degraded_audio_file) is called on host h.
Call(h) ==
    /\ h \in active
    /\ pc[h] = "idle"
    /\ pc' = [pc EXCEPT ![h] = "resolve"]
    /\ frame' = [frame EXCEPT ![h] = EmptyFrame]
    /\ entry' = [entry EXCEPT ![h] = [EmptyEntry EXCEPT !.samples = host[h].samples]]
    /\ UNCHANGED <<fs, params, host, active>>

\* noise_path = self.get_actual_noise_path()
Resolve(h) ==
    /\ pc[h] = "resolve"
    /\ frame' = [frame EXCEPT ![h].noise_path = ActualNoisePath(params.noise)]
    /\ pc' = [pc EXCEPT ![h] = "read"]
    /\ UNCHANGED <<fs, params, host, active, entry>>

\* self.read_noise(noise_path, degraded_audio_file)
ReadNoise(h) ==
    /\ pc[h] = "read"
    /\ LET got == Load(frame[h].noise_path)
       IN  IF got.err # "none"
           THEN /\ frame' = [frame EXCEPT ![h].exc = got.err]
                /\ pc' = [pc EXCEPT ![h] = "raised"]
           ELSE /\ frame' = [frame EXCEPT ![h].noise_samples = Stereo(got.audio)]
                /\ pc' = [pc EXCEPT ![h] = "adjust"]
    /\ UNCHANGED <<fs, params, host, active, entry>>

\* adjust_noise_duration is entered:
\* input_num_samples = degraded_audio_file.samples.shape[1]
AdjustEnter(h) ==
    /\ pc[h] = "adjust"
    /\ frame' = [frame EXCEPT ![h].input_num_samples = NumSamples(host[h].samples)]
    /\ entry' = [entry EXCEPT ![h].noise = frame[h].noise_samples,
                              ![h].looped = FALSE]
    /\ pc' = [pc EXCEPT ![h] = "loop"]
    /\ UNCHANGED <<fs, params, host, active>>

\* Mutant of LoopTest: the loop goes on while the noise is not longer than the
\* input (<= for <).
LoopTestOrEqual(h) ==
    /\ pc[h] = "loop"
    /\ pc' = [pc EXCEPT ![h] =
                IF NumSamples(frame[h].noise_samples) <= frame[h].input_num_samples
                THEN "body" ELSE "trim"]
    /\ UNCHANGED <<fs, params, host, active, frame, entry>>

\* while noise_samples.shape[1] < input_num_samples
LoopTest(h) ==
    /\ pc[h] = "loop"
    /\ pc' = [pc EXCEPT ![h] =
                IF NumSamples(frame[h].noise_samples) < frame[h].input_num_samples
                THEN "body" ELSE "trim"]
    /\ UNCHANGED <<fs, params, host, active, frame, entry>>

\* Mutant of LoopBody: three copies are concatenated.
LoopBodyTripled(h) ==
    /\ pc[h] = "body"
    /\ frame' = [frame EXCEPT ![h].noise_samples =
                    ConcatenateAxis1(frame[h].noise_samples,
                                     ConcatenateAxis1(frame[h].noise_samples,
                                                      frame[h].noise_samples))]
    /\ entry' = [entry EXCEPT ![h].looped = TRUE]
    /\ pc' = [pc EXCEPT ![h] = "loop"]
    /\ UNCHANGED <<fs, params, host, active>>

\* noise_samples = np.concatenate((noise_samples, noise_samples), axis=1)
LoopBody(h) ==
    /\ pc[h] = "body"
    /\ frame' = [frame EXCEPT ![h].noise_samples =
                    ConcatenateAxis1(frame[h].noise_samples, frame[h].noise_samples)]
    /\ entry' = [entry EXCEPT ![h].looped = TRUE]
    /\ pc' = [pc EXCEPT ![h] = "loop"]
    /\ UNCHANGED <<fs, params, host, active>>

\* Mutant of Trim: the buffer is returned as the loop left it.
TrimSkipped(h) ==
    /\ pc[h] = "trim"
    /\ pc' = [pc EXCEPT ![h] = "rms"]
    /\ UNCHANGED <<fs, params, host, active, frame, entry>>

\* Mutant of Trim: the trimmed buffer is kept in a place every call shares.
TrimShared(h) ==
    /\ pc[h] = "trim"
    /\ frame' = [g \in Hosts |->
                    [frame[g] EXCEPT !.noise_samples =
                        SliceAxis1(frame[h].noise_samples, frame[h].input_num_samples)]]
    /\ pc' = [pc EXCEPT ![h] = "rms"]
    /\ UNCHANGED <<fs, params, host, active, entry>>

\* noise_samples = noise_samples[:, :input_num_samples]; return noise_samples
Trim(h) ==
    /\ pc[h] = "trim"
    /\ frame' = [frame EXCEPT ![h].noise_samples =
                    SliceAxis1(frame[h].noise_samples, frame[h].input_num_samples)]
    /\ pc' = [pc EXCEPT ![h] = "rms"]
    /\ UNCHANGED <<fs, params, host, active, entry>>

\* rms_noise = ...; rms_input = ...
ComputeRms(h) ==
    /\ pc[h] = "rms"
    /\ frame' = [frame EXCEPT ![h].rms_noise = RootMeanSquare(frame[h].noise_samples),
                              ![h].rms_input = RootMeanSquare(host[h].samples)]
    /\ pc' = [pc EXCEPT ![h] = "gain"]
    /\ UNCHANGED <<fs, params, host, active, entry>>

\* noise_gain_factor = self.get_noise_gain_factor(float(snr), rms_noise, rms_input)
ComputeGain(h) ==
    /\ pc[h] = "gain"
    /\ LET snr == ParseFloat(params.snr)
       IN  IF ~snr.ok
           THEN /\ frame' = [frame EXCEPT ![h].exc = "ValueError"]
                /\ pc' = [pc EXCEPT ![h] = "raised"]
           ELSE /\ frame' = [frame EXCEPT ![h].noise_gain_factor =
                                GainFormula(snr.v, frame[h].rms_noise, frame[h].rms_input)]
                /\ pc' = [pc EXCEPT ![h] = "mix"]
    /\ UNCHANGED <<fs, params, host, active, entry>>

\* Mutant of Mix: the sum is written into the host buffer in place.
MixInPlace(h) ==
    /\ pc[h] = "mix"
    /\ IF ~SameShape(host[h].samples, frame[h].noise_samples)
       THEN /\ frame' = [frame EXCEPT ![h].exc = "ValueError"]
            /\ pc' = [pc EXCEPT ![h] = "raised"]
            /\ host' = host
       ELSE /\ frame' = [frame EXCEPT ![h].y =
                            AddArr(host[h].samples,
                                   ScaleArr(frame[h].noise_samples,
                                            frame[h].noise_gain_factor))]
            /\ host' = [host EXCEPT ![h].samples = frame'[h].y]
            /\ pc' = [pc EXCEPT ![h] = "normalize"]
    /\ UNCHANGED <<fs, params, active, entry>>

\* y = degraded_audio_file.samples + noise_samples * noise_gain_factor
Mix(h) ==
    /\ pc[h] = "mix"
    /\ IF ~SameShape(host[h].samples, frame[h].noise_samples)
       THEN /\ frame' = [frame EXCEPT ![h].exc = "ValueError"]
            /\ pc' = [pc EXCEPT ![h] = "raised"]
       ELSE /\ frame' = [frame EXCEPT ![h].y =
                            AddArr(host[h].samples,
                                   ScaleArr(frame[h].noise_samples,
                                            frame[h].noise_gain_factor))]
            /\ pc' = [pc EXCEPT ![h] = "normalize"]
    /\ UNCHANGED <<fs, params, host, active, entry>>

\* rms_y = ...; y = y * rms_input / rms_y
Normalize(h) ==
    /\ pc[h] = "normalize"
    /\ LET rms_y == RootMeanSquare(frame[h].y)
       IN  frame' = [frame EXCEPT ![h].rms_y = rms_y,
                                  ![h].y = DivArr(ScaleArr(frame[h].y, frame[h].rms_input),
                                                  rms_y)]
    /\ pc' = [pc EXCEPT ![h] = "assign"]
    /\ UNCHANGED <<fs, params, host, active, entry>>

\* degraded_audio_file.samples = y
Assign(h) ==
    /\ pc[h] = "assign"
    /\ host' = [host EXCEPT ![h].samples = frame[h].y]
    /\ pc' = [pc EXCEPT ![h] = "done"]
    /\ UNCHANGED <<fs, params, active, frame, entry>>

\* ------------------------------------------------------------------ inputs

One == Rat(1, 1)

MinusOne == Rat(-1, 1)

\* Host buffers of shape (2, L): every buffer of samples +-1, and the
\* constant buffers 0 and 2.
HostBuffers ==
    UNION { Arrays({MinusOne, One}, 2, L) \cup {Full(2, L, Zero), Full(2, L, Rat(2, 1))} :
            L \in 0..MaxHostLen }

\* What the decoder returns for a noise file: single-channel signals (shape
\* (M,)) and two-channel signals (shape (2, M)) of samples +-1, silent ones, a
\* three-channel signal, and a file that does not decode.
MonoDecodes ==
    { [fmt |-> "mono", data |-> d] :
      d \in UNION { SeqsOfLen({MinusOne, One}, M) \cup {[i \in 1..M |-> Zero]} :
                    M \in 0..MaxMonoLen } }

StereoDecodes ==
    { [fmt |-> "multi", data |-> d] :
      d \in UNION { Arrays({MinusOne, One}, 2, M) \cup {Full(2, M, Zero)} :
                    M \in 0..MaxDecodeLen } }

SurroundDecode == [fmt |-> "multi", data |-> Full(3, 1, One)]

BadDecode == [fmt |-> "bad", data |-> <<>>]

Decodes == MonoDecodes \cup StereoDecodes \cup {SurroundDecode, BadDecode}

\* The bundled ambience recording, as decoded.
BundledDecode == [fmt |-> "multi", data |-> <<<<One>>, <<MinusOne>>>>]

Directory == [kind |-> "dir", audio |-> BadDecode]

File(audio) == [kind |-> "file", audio |-> audio]

\* The installed package alone: the resources directory with its sounds.
FsBundled ==
    (ResourcesDir :> Directory)
    @@ (PathJoin(ResourcesDir, <<"sounds">>) :> Directory)
    @@ (PathJoin(ResourcesDir, <<"sounds", "ambience-pub.wav">>) :> File(BundledDecode))
    @@ (PathJoin(ResourcesDir, <<"n.wav">>) :> File(BundledDecode))

\* ... and the user's recording, in the working directory and under /data.
FsWith(audio) ==
    FsBundled
    @@ (PathJoin(WorkDir, <<"n.wav">>) :> File(audio))
    @@ (<<"/", "data", "n.wav">> :> File(audio))

\* parameters_info: the default of "noise"
DefaultNoise == <<"sounds", "ambience-pub.wav">>

\* Values of the "noise" parameter: relative and absolute, files and a directory.
NoiseParams ==
    { <<"n.wav">>, DefaultNoise, <<"/", "data", "n.wav">>, <<"sounds">>, <<"missing.wav">> }

\* Values of the "snr" parameter, as texts.
SnrTexts == { <<"0">>, <<"2", "0">>, <<"-", "2", "0">>, <<"x">> }

\* File system and "noise" value together: the user's recording under each of
\* its contents, named by its relative path; and every "noise" value with
\* and without a user's recording.
PathCases ==
    { [fs |-> FsWith(a), noise |-> <<"n.wav">>] : a \in Decodes }
    \cup { [fs |-> f, noise |-> p] :
           f \in {FsBundled, FsWith(BundledDecode)}, p \in NoiseParams }

Idle == [h \in Hosts |-> "idle"]

\* apply is about to be called on host 1.
Init ==
    /\ \E pcase \in PathCases, snr \in SnrTexts :
         /\ fs = pcase.fs
         /\ params = [noise |-> pcase.noise, snr |-> snr]
    /\ \E x \in HostBuffers : host = [h \in Hosts |-> [samples |-> x]]
    /\ active = {1}
    /\ pc = Idle
    /\ frame = [h \in Hosts |-> EmptyFrame]
    /\ entry = [h \in Hosts |-> EmptyEntry]

Step(h) ==
    \/ Call(h)
    \/ Resolve(h)
    \/ ReadNoise(h)
    \/ AdjustEnter(h)
    \/ LoopTest(h)
    \/ LoopBody(h)
    \/ Trim(h)
    \/ ComputeRms(h)
    \/ ComputeGain(h)
    \/ Mix(h)
    \/ Normalize(h)
    \/ Assign(h)

Next == \E h \in Hosts : Step(h)

\* The interpreter keeps running a call that has a next statement.
Spec == Init /\ [][Next]_vars /\ \A h \in Hosts : WF_vars(Step(h))

\* adjust_noise_duration(noise_samples, degraded_audio_file) is about to run
\* on a noise buffer of shape (2, M) and a host buffer of L samples.
InitAdjust ==
    /\ fs = FsBundled
    /\ params = [noise |-> DefaultNoise, snr |-> <<"6">>]
    /\ \E L \in 0..MaxInputLen : host = [h \in Hosts |-> [samples |-> Full(2, L, Zero)]]
    /\ active = {1}
    /\ pc = [Idle EXCEPT ![1] = "adjust"]
    /\ \E M \in 0..MaxNoiseLen : \E ns \in Arrays({Zero, One}, 2, M) :
         frame = [[h \in Hosts |-> EmptyFrame] EXCEPT ![1].noise_samples = ns]
    /\ entry = [h \in Hosts |-> EmptyEntry]

StepAdjust(h) ==
    \/ AdjustEnter(h)
    \/ LoopTest(h)
    \/ LoopBody(h)
    \/ Trim(h)

NextAdjust == \E h \in Hosts : StepAdjust(h)

SpecAdjust == InitAdjust /\ [][NextAdjust]_vars /\ \A h \in Hosts : WF_vars(StepAdjust(h))

\* Every addition of the runs is exact: its operands are rational, zero or
\* not finite.
ArithmeticExact ==
    \A h \in Hosts :
        pc[h] = "mix" /\ SameShape(host[h].samples, frame[h].noise_samples) =>
            \A c \in 1..Len(host[h].samples) : \A i \in 1..Len(host[h].samples[c]) :
                AddOk(host[h].samples[c][i],
                      Mul(frame[h].noise_samples[c][i], frame[h].noise_gain_factor))

\* ------------------------------------------------- apply, as one function

\* The loop of adjust_noise_duration, for a noise buffer that is not empty.
RECURSIVE Repeated(_, _)
Repeated(noise_samples, input_num_samples) ==
    IF NumSamples(noise_samples) < input_num_samples
    THEN Repeated(ConcatenateAxis1(noise_samples, noise_samples), input_num_samples)
    ELSE noise_samples

\* adjust_noise_duration, for a noise buffer that is not empty or a host
\* buffer that is.
AdjustNoiseDuration(noise_samples, input_num_samples) ==
    SliceAxis1(Repeated(noise_samples, input_num_samples), input_num_samples)

\* apply run from start to end on a host whose buffer is x: the exception it
\* raises ("none": it returns) and the host's buffer after it.
ApplyOutcome(x) ==
    LET got == Load(ActualNoisePath(params.noise))
        snr == ParseFloat(params.snr)
    IN  IF got.err # "none" THEN [exc |-> got.err, samples |-> x]
        ELSE LET noise_samples == AdjustNoiseDuration(Stereo(got.audio), NumSamples(x))
                 rms_noise == RootMeanSquare(noise_samples)
                 rms_input == RootMeanSquare(x)
             IN  IF ~snr.ok \/ ~SameShape(x, noise_samples)
                 THEN [exc |-> "ValueError", samples |-> x]
                 ELSE LET y == AddArr(x, ScaleArr(noise_samples,
                                          GainFormula(snr.v, rms_noise, rms_input)))
                      IN  [exc |-> "none",
                           samples |-> DivArr(ScaleArr(y, rms_input), RootMeanSquare(y))]

\* ------------------------------------------------------- concurrent calls

\* Host buffers of the concurrent runs: constant buffers of each length.
ConcurrentBuffers ==
    { Full(2, L, v) : L \in 0..MaxHostLen, v \in {MinusOne, One} }

\* apply is about to be called on two hosts, by two threads sharing the
\* parameter values and the noise file.
InitConcurrent ==
    /\ fs = FsBundled
    /\ \E p \in {DefaultNoise, <<"missing.wav">>}, snr \in SnrTexts :
         params = [noise |-> p, snr |-> snr]
    /\ \E x1 \in ConcurrentBuffers, x2 \in ConcurrentBuffers :
         host = [h \in Hosts |-> [samples |-> IF h = 1 THEN x1 ELSE x2]]
    /\ active = Hosts
    /\ pc = Idle
    /\ frame = [h \in Hosts |-> EmptyFrame]
    /\ entry = [h \in Hosts |-> EmptyEntry]

SpecConcurrent == InitConcurrent /\ [][Next]_vars /\ \A h \in Hosts : WF_vars(Step(h))

\* --------------------------------------------- duration adjustment: claims

\* adjust_noise_duration has been entered on host h and has not returned.
InAdjust(h) == pc[h] \in {"loop", "body", "trim"}

\* adjust_noise_duration has returned on host h.
Adjusted(h) == pc[h] = "rms"

\* M: samples per channel of the noise buffer adjust_noise_duration was given.
NoiseLen0(h) == NumSamples(entry[h].noise)

\* L: samples per channel of the host buffer.
InputLen(h) == NumSamples(host[h].samples)

\* C1: for a noise buffer of shape (2, M), M >= 1, and a host buffer of
\* L >= 0 samples, adjust_noise_duration returns a buffer of exactly 2
\* channels and exactly L samples in each.
C1_AdjustShape ==
    \A h \in Hosts :
        Adjusted(h) /\ NumChannels(entry[h].noise) = 2 /\ NoiseLen0(h) >= 1 =>
            /\ NumChannels(frame[h].noise_samples) = 2
            /\ \A c \in 1..2 : Len(frame[h].noise_samples[c]) = InputLen(h)

\* C1: a noise buffer shorter than the host buffer, and not dividing it, has
\* been repeated and trimmed.
C1_Witness ==
    \E h \in Hosts :
        /\ Adjusted(h) /\ entry[h].looped
        /\ NoiseLen0(h) = 2 /\ InputLen(h) = 5
        /\ NumSamples(frame[h].noise_samples) = 5

\* C8: when the noise buffer is as long as the host buffer (M = L), the loop
\* body does not run and the returned buffer is the given one, sample for
\* sample; so adjusting the result again returns it again.
C8_AdjustIdentity ==
    \A h \in Hosts :
        Adjusted(h) /\ NoiseLen0(h) = InputLen(h) =>
            /\ ~entry[h].looped
            /\ frame[h].noise_samples = entry[h].noise
            /\ SliceAxis1(frame[h].noise_samples, InputLen(h)) = frame[h].noise_samples
            /\ ~(NumSamples(frame[h].noise_samples) < InputLen(h))

\* C8: a buffer of three samples, not all equal, has been adjusted to a host
\* buffer of three samples.
C8_Witness ==
    \E h \in Hosts :
        /\ Adjusted(h)
        /\ InputLen(h) = 3
        /\ entry[h].noise = <<<<One, Zero, Zero>>, <<Zero, One, One>>>>

\* C9: for 1 <= M < L the doubling loop ends, and the buffer it leaves, before
\* the trim, has at least L and less than 2 * L samples; for M >= L the loop
\* body never runs.
C9_LoopEnds ==
    \A h \in Hosts :
        /\ [](pc[h] = "trim" /\ 1 <= NoiseLen0(h) /\ NoiseLen0(h) < InputLen(h) =>
                /\ NumSamples(frame[h].noise_samples) >= InputLen(h)
                /\ NumSamples(frame[h].noise_samples) < 2 * InputLen(h))
        /\ []((InAdjust(h) \/ Adjusted(h)) /\ NoiseLen0(h) >= InputLen(h) =>
                ~entry[h].looped /\ pc[h] # "body")
        /\ ((pc[h] = "loop" /\ 1 <= NoiseLen0(h) /\ NoiseLen0(h) < InputLen(h))
                ~> pc[h] = "trim")

\* C9: the loop has ended after doubling a buffer of 1 sample twice, for a host
\* buffer of 3 samples.
C9_Witness ==
    \E h \in Hosts :
        /\ pc[h] = "trim" /\ entry[h].looped
        /\ NoiseLen0(h) = 1 /\ InputLen(h) = 3
        /\ NumSamples(frame[h].noise_samples) = 4

\* C10: the returned buffer repeats the given noise periodically: for M >= 1,
\* every channel c and every index i < L, output[c][i] = noise[c][i mod M]
\* (indices from 0; the sequences of the model count from 1).
C10_Periodic ==
    \A h \in Hosts :
        Adjusted(h) /\ NoiseLen0(h) >= 1 =>
            \A c \in 1..NumChannels(entry[h].noise) :
                /\ Len(frame[h].noise_samples[c]) = InputLen(h)
                /\ \A i \in 0..(InputLen(h) - 1) :
                      frame[h].noise_samples[c][i + 1]
                          = entry[h].noise[c][(i % NoiseLen0(h)) + 1]

\* C10: a buffer of 3 samples, not all equal, has been repeated to 5 samples.
C10_Witness ==
    \E h \in Hosts :
        /\ Adjusted(h)
        /\ InputLen(h) = 5
        /\ entry[h].noise = <<<<One, Zero, Zero>>, <<Zero, Zero, One>>>>
        /\ frame[h].noise_samples[1] = <<One, Zero, Zero, One, Zero>>

\* ------------------------------------------------------------ apply: claims

\* The call on host h has passed get_actual_noise_path.
Resolved(h) == pc[h] \notin {"idle", "resolve"}

\* C3: get_actual_noise_path returns the "noise" value itself when it names an
\* existing file; otherwise it returns the value joined onto the resources
\* directory (for an absolute value the join is the value itself), whether or
\* not that path exists; a path other than the value is returned only when
\* the value is no existing file.
C3_NoisePath ==
    \A h \in Hosts :
        Resolved(h) =>
            LET value == params.noise
                got == frame[h].noise_path
            IN  /\ IsFile(value) => got = value
                /\ ~IsFile(value) =>
                      got = IF IsAbsPath(value) THEN value ELSE ResourcesDir \o value
                /\ got # value => ~IsFile(value)

\* C3: a relative value that is no file has been resolved to a path under the
\* resources directory that does not exist either.
C3_Witness ==
    \E h \in Hosts :
        /\ Resolved(h)
        /\ ~IsFile(params.noise)
        /\ frame[h].noise_path = ResourcesDir \o params.noise
        /\ frame[h].noise_path \notin DOMAIN fs

C2_AllOrNothing ==
    \A h \in Hosts :
        /\ pc[h] \notin {"idle", "done"} => host[h].samples = entry[h].samples
        /\ pc[h] = "raised" => frame[h].exc # "none"
        /\ pc[h] = "done" => frame[h].exc = "none" /\ host[h].samples = frame[h].y

\* C2: the mix has raised, after the noise was read and the gain computed, on
\* a host whose buffer is not empty.
C2_Witness ==
    \E h \in Hosts :
        /\ pc[h] = "raised"
        /\ frame[h].exc = "ValueError"
        /\ frame[h].noise_gain_factor # Unset
        /\ NumSamples(host[h].samples) > 0

IsPositive(v) == IsFinite(v) /\ v.p > 0

\* C4: for an input of RMS r > 0 and a noise of RMS > 0, whatever the SNR,
\* the RMS of host.samples after apply is r.
C4_RmsPreserved ==
    \A h \in Hosts :
        pc[h] = "done" /\ IsPositive(frame[h].rms_input) /\ IsPositive(frame[h].rms_noise) =>
            RootMeanSquare(host[h].samples) = frame[h].rms_input

\* What does hold of the code: the RMS is r when, moreover, the mix is not
\* silent (its RMS, the divisor of the normalization, is not 0).
RmsPreservedUnlessMixSilent ==
    \A h \in Hosts :
        /\ pc[h] = "done"
        /\ IsPositive(frame[h].rms_input) /\ IsPositive(frame[h].rms_noise)
        /\ IsPositive(frame[h].rms_y)
        => RootMeanSquare(host[h].samples) = frame[h].rms_input

NonFinite(v) == IsNaN(v) \/ IsInf(v)

AllSamples(a, P(_)) == \A c \in 1..Len(a) : \A i \in 1..Len(a[c]) : P(a[c][i])

\* The noise of the call on host h is degenerate: silent or empty, as decoded
\* or as adjusted to the host.
DegenerateNoise(h) ==
    \/ AllSamples(entry[h].noise, IsZero)
    \/ NoiseLen0(h) = 0
    \/ InputLen(h) = 0

\* C6: with a degenerate noise of two channels (and an snr that parses) apply
\* raises nothing and runs to its end: the gain is not finite and host.samples
\* is replaced by a buffer whose samples are not finite.
C6_DegenerateCompletes ==
    \A h \in Hosts :
        (/\ pc[h] = "loop" /\ ~entry[h].looped
         /\ NumChannels(entry[h].noise) = 2
         /\ DegenerateNoise(h)
         /\ ParseFloat(params.snr).ok)
        ~> (/\ pc[h] = "done"
            /\ NonFinite(frame[h].noise_gain_factor)
            /\ AllSamples(host[h].samples, NonFinite))

\* C5: under every interleaving of two calls on two hosts, each call ends as
\* it does when run alone on its host: with the same exception or none, and
\* the same buffer in the host.
C5_Independent ==
    \A h \in Hosts :
        pc[h] \in {"done", "raised"} =>
            /\ frame[h].exc = ApplyOutcome(entry[h].samples).exc
            /\ host[h].samples = ApplyOutcome(entry[h].samples).samples

\* C5: both calls have returned, on buffers of different lengths, and the
\* buffer of host 1 has changed.
C5_Witness ==
    /\ pc[1] = "done" /\ pc[2] = "done"
    /\ NumSamples(entry[1].samples) = 2 /\ NumSamples(entry[2].samples) = 1
    /\ host[1].samples # entry[1].samples

====
